---- MODULE Spec2Model ----
(***************************************************************************)
(* The linked-list stack of stack_linked_list/source.c: struct Stack,      *)
(* struct StackNode, stack_initialise, stack_is_empty, stack_size,         *)
(* stack_allocate, stack_emplace, stack_push, stack_pop, stack_peek and    *)
(* stack_destroy, over an explicit heap.                                   *)
(*                                                                         *)
(* Heap blocks are identified by the order of their allocation: malloc     *)
(* hands out block brk+1, so a block identity is never reused and a        *)
(* pointer to a freed block stays recognisable as dangling.  A malloc may  *)
(* fail at any time, and always fails once MaxAddr blocks were handed out. *)
(*                                                                         *)
(* A read or write through a null pointer stops the program                *)
(* (pc = "crashed").  A read of a pointer field of a freed node yields     *)
(* the stale pointer (the allocator left the block alone) or NULL (the     *)
(* allocator cleared it), or what it yields is no address of the process   *)
(* and using it stops the program.                                         *)
(***************************************************************************)
EXTENDS Integers, Sequences, FiniteSets, TLC

\* ---------------------------------------------------------------- bounds
MaxAddr == 6          \* blocks the allocator can hand out in one run

\* ------------------------------------------------------------ the program
ITEM_SIZE == 4        \* sizeof(Item), Item being a 4-byte int

NULL == 0
Addr == 1..MaxAddr
Ptr == Addr \cup {NULL}
\* the element sizes a stack is created with: one byte, or an Item
DataSizes == {1, ITEM_SIZE}
\* the little-endian bytes of the Item v
ItemBytes(v) == [i \in 1..ITEM_SIZE |-> (v \div (256 ^ (i - 1))) % 256]
\* the caller's objects: the Items main stores
Objects == {ItemBytes(500), ItemBytes(1000)}
\* no object: the caller passes a null data pointer
NoObject == <<>>
\* the address of the struct Stack record, outside the node/payload arena
StackRec == MaxAddr + 1
\* the address of the caller's automatic variable handed to stack_push
AutoVar == MaxAddr + 2

VARIABLES
  pc,          \* "start", "idle", "destroy", "crashed"
  stack,       \* the handle: NULL or StackRec
  stackSt,     \* allocation state of the struct Stack record
  size,        \* stack->size
  data_size,   \* stack->data_size
  head,        \* stack->head
  mem,         \* the heap: block -> [st, kind, data, next, bytes, frees]
  brk,         \* number of blocks handed out so far
  last,        \* the last call: its name, arguments, result, failed malloc
  pushed,      \* values of the successful pushes of a pushes-then-pops run
  npop,        \* successful pops of that run
  phase,       \* "push", "pop" or "off" (the run is of another shape)
  nIns,        \* successful insertions since creation
  nPop,        \* successful pops since creation
  destroyed,   \* stack_destroy was called since creation
  dsnap,       \* nodes and payloads held when stack_destroy was entered
  iters        \* loop iterations of the current stack_destroy

vars == <<pc, stack, stackSt, size, data_size, head, mem, brk, last,
          pushed, npop, phase, nIns, nPop, destroyed, dsnap, iters>>

stk == <<stack, stackSt, size, data_size, head>>
ghost == <<pushed, npop, phase, nIns, nPop, destroyed, dsnap, iters>>

\* ------------------------------------------------------------------ heap
NoBlock == [st |-> "unalloc", kind |-> "none", data |-> NULL, next |-> NULL,
            bytes |-> <<>>, frees |-> 0]

\* a block as malloc returns it: live, contents indeterminate (never read)
Fresh(kind) == [st |-> "live", kind |-> kind, data |-> NULL, next |-> NULL,
                bytes |-> <<>>, frees |-> 0]

LiveNode(m, a) == a \in Addr /\ m[a].st = "live" /\ m[a].kind = "node"

\* free(p): free(NULL) does nothing, else the block is released.  The
\* pointer fields of a released node stay as they were (ReadField decides
\* what a later read of them gives); released payload bytes are never read
\* again and are not kept
Free(m, p) ==
  IF p = NULL THEN m
  ELSE [m EXCEPT ![p].st = "freed", ![p].frees = @ + 1, ![p].bytes = <<>>]

\* the values a read of the pointer field a->f can produce when it returns
ReadField(m, a, f) ==
  IF LiveNode(m, a) THEN {m[a][f]} ELSE {m[a][f], NULL}

\* memcpy copying one byte too few
memcpy_short(src, n) == SubSeq(src, 1, n - 1)

\* memcpy(dst, src, n): the first n bytes of src
memcpy(src, n) == SubSeq(src, 1, n)

NoCall == [op |-> "none", returned |-> FALSE, ok |-> FALSE, ptr |-> NULL,
           num |-> 0, arg |-> NULL, bytes |-> <<>>, oom |-> "none"]

\* --------------------------------------------------------- the observers
stack_is_empty == stack = NULL \/ head = NULL

stack_size == IF ~stack_is_empty THEN size ELSE 0

stack_peek == IF stack_is_empty THEN NULL ELSE mem[head].data

\* ------------------------------------------------------------------ Init
Init ==
  /\ pc = "start"
  /\ stack = NULL
  /\ stackSt = "unalloc"
  /\ size = 0
  /\ data_size = 0
  /\ head = NULL
  /\ mem = [a \in Addr |-> NoBlock]
  /\ brk = 0
  /\ last = NoCall
  /\ pushed = <<>>
  /\ npop = 0
  /\ phase = "push"
  /\ nIns = 0
  /\ nPop = 0
  /\ destroyed = FALSE
  /\ dsnap = [nodes |-> {}, bufs |-> {}]
  /\ iters = 0

\* ------------------------------------------------------ stack_initialise
\* stack_initialise returning the record with a size left over in it
stack_initialise_dirty(ds, ok) ==
  /\ pc = "start"
  /\ pc' = "idle"
  /\ IF ok
       THEN /\ stack' = StackRec
            /\ stackSt' = "live"
            /\ size' = 1
            /\ data_size' = ds
            /\ head' = NULL
       ELSE /\ stack' = NULL
            /\ UNCHANGED <<stackSt, size, data_size, head>>
  /\ last' = [NoCall EXCEPT !.op = "initialise", !.returned = TRUE,
                            !.ptr = IF ok THEN StackRec ELSE NULL,
                            !.num = ds,
                            !.oom = IF ok THEN "none" ELSE "stack"]
  /\ UNCHANGED <<mem, brk>>
  /\ UNCHANGED ghost

\* stack_initialise storing ITEM_SIZE whatever its argument
stack_initialise_fixed(ds, ok) ==
  /\ pc = "start"
  /\ pc' = "idle"
  /\ IF ok
       THEN /\ stack' = StackRec
            /\ stackSt' = "live"
            /\ size' = 0
            /\ data_size' = ITEM_SIZE
            /\ head' = NULL
       ELSE /\ stack' = NULL
            /\ UNCHANGED <<stackSt, size, data_size, head>>
  /\ last' = [NoCall EXCEPT !.op = "initialise", !.returned = TRUE,
                            !.ptr = IF ok THEN StackRec ELSE NULL,
                            !.num = ds,
                            !.oom = IF ok THEN "none" ELSE "stack"]
  /\ UNCHANGED <<mem, brk>>
  /\ UNCHANGED ghost

stack_initialise(ds, ok) ==
  /\ pc = "start"
  /\ pc' = "idle"
  /\ IF ok
       THEN /\ stack' = StackRec
            /\ stackSt' = "live"
            /\ size' = 0
            /\ data_size' = ds
            /\ head' = NULL
       ELSE /\ stack' = NULL
            /\ UNCHANGED <<stackSt, size, data_size, head>>
  /\ last' = [NoCall EXCEPT !.op = "initialise", !.returned = TRUE,
                            !.ptr = IF ok THEN StackRec ELSE NULL,
                            !.num = ds,
                            !.oom = IF ok THEN "none" ELSE "stack"]
  /\ UNCHANGED <<mem, brk>>
  /\ UNCHANGED ghost

\* -------------------------------------------------------- ghost updates
\* a successful stack_push of the caller's object obj
GhostPush(obj) ==
  /\ pushed' = IF phase = "push" THEN Append(pushed, obj) ELSE <<>>
  /\ phase' = IF phase = "push" THEN "push" ELSE "off"
  /\ npop' = 0
  /\ nIns' = nIns + 1
  /\ UNCHANGED <<nPop, destroyed, dsnap, iters>>

\* a successful stack_emplace
GhostEmplace ==
  /\ phase' = "off"
  /\ pushed' = <<>>
  /\ npop' = 0
  /\ nIns' = nIns + 1
  /\ UNCHANGED <<nPop, destroyed, dsnap, iters>>

\* a successful stack_pop
GhostPop ==
  /\ phase' = IF phase = "off" THEN "off" ELSE "pop"
  /\ npop' = IF phase = "off" THEN npop ELSE npop + 1
  /\ nPop' = nPop + 1
  /\ UNCHANGED <<pushed, nIns, destroyed, dsnap, iters>>

\* the nodes from h on, following next (at most fuel of them)
RECURSIVE Chain(_, _, _)
Chain(m, h, fuel) ==
  IF h = NULL \/ fuel = 0 THEN <<>>
  ELSE <<h>> \o Chain(m, m[h].next, fuel - 1)

Range(s) == {s[i] : i \in DOMAIN s}

\* the pointer reached from h by following next k times; Lost when the
\* chain ends before that
Lost == MaxAddr + 3
RECURSIVE Walk(_, _, _)
Walk(m, h, k) ==
  IF k = 0 THEN h
  ELSE IF h = NULL THEN Lost
  ELSE Walk(m, m[h].next, k - 1)

\* -------------------------------------------------------- stack_allocate
\* stack_allocate storing the result of its first malloc in stack->head
\* before testing it
stack_allocate_drops_head(m, b, hd, nodeOK, payOK) ==
  IF ~nodeOK
    THEN [ok |-> FALSE, mem |-> m, brk |-> b, head |-> NULL]
    ELSE LET temp == b + 1
             pay  == IF payOK THEN b + 2 ELSE NULL
             m1   == [m EXCEPT ![temp] =
                        [Fresh("node") EXCEPT !.next = hd, !.data = pay]]
             m2   == IF payOK THEN [m1 EXCEPT ![pay] = Fresh("buf")] ELSE m1
         IN  [ok |-> TRUE, mem |-> m2,
              brk |-> IF payOK THEN b + 2 ELSE b + 1, head |-> temp]

\* stack_allocate with the new node not linked to the old head
stack_allocate_unlinked(m, b, hd, nodeOK, payOK) ==
  IF ~nodeOK
    THEN [ok |-> FALSE, mem |-> m, brk |-> b, head |-> hd]
    ELSE LET temp == b + 1
             pay  == IF payOK THEN b + 2 ELSE NULL
             m1   == [m EXCEPT ![temp] =
                        [Fresh("node") EXCEPT !.next = NULL, !.data = pay]]
             m2   == IF payOK THEN [m1 EXCEPT ![pay] = Fresh("buf")] ELSE m1
         IN  [ok |-> TRUE, mem |-> m2,
              brk |-> IF payOK THEN b + 2 ELSE b + 1, head |-> temp]

\* nodeOK, payOK: whether the two mallocs succeed.  The result of the second
\* malloc is stored unchecked, and the node is linked in either way.
stack_allocate(m, b, hd, nodeOK, payOK) ==
  IF ~nodeOK
    THEN [ok |-> FALSE, mem |-> m, brk |-> b, head |-> hd]
    ELSE LET temp == b + 1
             pay  == IF payOK THEN b + 2 ELSE NULL
             m1   == [m EXCEPT ![temp] =
                        [Fresh("node") EXCEPT !.next = hd, !.data = pay]]
             m2   == IF payOK THEN [m1 EXCEPT ![pay] = Fresh("buf")] ELSE m1
         IN  [ok |-> TRUE, mem |-> m2,
              brk |-> IF payOK THEN b + 2 ELSE b + 1, head |-> temp]

\* the allocator can satisfy the mallocs that are said to succeed
CanAlloc(b, nodeOK, payOK) ==
  /\ nodeOK => b + 1 <= MaxAddr
  /\ payOK => nodeOK /\ b + 2 <= MaxAddr

\* ------------------------------------------------------------ stack_push
\* obj: the caller's object whose address is passed, NoObject for data = NULL
stack_push(obj, nodeOK, payOK) ==
  /\ pc = "idle"
  /\ CanAlloc(brk, nodeOK, payOK)
  /\ LET data == IF obj = NoObject THEN NULL ELSE AutoVar
         call == [NoCall EXCEPT !.op = "push", !.arg = data]
         r    == stack_allocate(mem, brk, head, nodeOK, payOK)
         dst  == r.mem[r.head].data
     IN
     IF data = NULL
       THEN /\ last' = [call EXCEPT !.returned = TRUE, !.ok = FALSE]
            /\ UNCHANGED <<pc, stk, mem, brk, ghost>>
     ELSE IF ~r.ok
       THEN /\ last' = [call EXCEPT !.returned = TRUE, !.ok = FALSE,
                                    !.oom = "node"]
            /\ mem' = r.mem /\ brk' = r.brk /\ head' = r.head
            /\ UNCHANGED <<pc, stack, stackSt, size, data_size, ghost>>
     ELSE IF stack = NULL
       \* stack_allocate reads stack->head through the null handle
       THEN /\ pc' = "crashed"
            /\ last' = call
            /\ mem' = [mem EXCEPT ![brk + 1] = Fresh("node")]
            /\ brk' = brk + 1
            /\ UNCHANGED <<stk, ghost>>
     ELSE IF dst = NULL
       \* memcpy writes through the null payload pointer of the linked node
       THEN /\ pc' = "crashed"
            /\ last' = [call EXCEPT !.oom = "payload"]
            /\ mem' = r.mem /\ brk' = r.brk /\ head' = r.head
            /\ UNCHANGED <<stack, stackSt, size, data_size, ghost>>
     ELSE   /\ last' = [call EXCEPT !.returned = TRUE, !.ok = TRUE,
                                    !.bytes = obj]
            /\ mem' = [r.mem EXCEPT ![dst].bytes = memcpy(obj, data_size)]
            /\ brk' = r.brk /\ head' = r.head
            /\ size' = (size + 1)
            /\ GhostPush(obj)
            /\ UNCHANGED <<pc, stack, stackSt, data_size>>

\* --------------------------------------------------------- stack_emplace
\* stack_emplace without the stack->head->data = data of line 213: the node
\* keeps the payload stack_allocate gave it
stack_emplace_keeps_payload(obj, nodeOK, payOK) ==
  /\ pc = "idle"
  /\ obj = NoObject \/ brk + 1 <= MaxAddr
  /\ CanAlloc(IF obj = NoObject THEN brk ELSE brk + 1, nodeOK, payOK)
  /\ LET isNull == obj = NoObject
         data == IF isNull THEN NULL ELSE brk + 1
         m0   == IF isNull THEN mem
                 ELSE [mem EXCEPT ![data] =
                        [Fresh("cbuf") EXCEPT !.bytes = SubSeq(obj, 1, data_size)]]
         b0   == IF isNull THEN brk ELSE brk + 1
         call == [NoCall EXCEPT !.op = "emplace", !.arg = data]
         r    == stack_allocate(m0, b0, head, nodeOK, payOK)
     IN
     IF data = NULL
       THEN /\ last' = [call EXCEPT !.returned = TRUE, !.ok = FALSE]
            /\ UNCHANGED <<pc, stk, mem, brk, ghost>>
     ELSE IF ~r.ok
       THEN /\ last' = [call EXCEPT !.returned = TRUE, !.ok = FALSE,
                                    !.oom = "node"]
            /\ mem' = r.mem /\ brk' = r.brk /\ head' = r.head
            /\ UNCHANGED <<pc, stack, stackSt, size, data_size, ghost>>
     ELSE IF stack = NULL
       THEN /\ pc' = "crashed"
            /\ last' = call
            /\ mem' = [m0 EXCEPT ![b0 + 1] = Fresh("node")]
            /\ brk' = b0 + 1
            /\ UNCHANGED <<stk, ghost>>
     ELSE   /\ last' = [call EXCEPT !.returned = TRUE, !.ok = TRUE,
                                    !.bytes = SubSeq(obj, 1, data_size),
                                    !.oom = IF payOK THEN "none" ELSE "payload"]
            /\ mem' = r.mem
            /\ brk' = r.brk /\ head' = r.head
            /\ size' = (size + 1)
            /\ GhostEmplace
            /\ UNCHANGED <<pc, stack, stackSt, data_size>>

\* obj = NoObject: the caller passes NULL; otherwise the caller passes a
\* buffer it has just got from malloc(data_size) and filled from obj
stack_emplace(obj, nodeOK, payOK) ==
  /\ pc = "idle"
  /\ obj = NoObject \/ brk + 1 <= MaxAddr
  /\ CanAlloc(IF obj = NoObject THEN brk ELSE brk + 1, nodeOK, payOK)
  /\ LET isNull == obj = NoObject
         data == IF isNull THEN NULL ELSE brk + 1
         m0   == IF isNull THEN mem
                 ELSE [mem EXCEPT ![data] =
                        [Fresh("cbuf") EXCEPT !.bytes = SubSeq(obj, 1, data_size)]]
         b0   == IF isNull THEN brk ELSE brk + 1
         call == [NoCall EXCEPT !.op = "emplace", !.arg = data]
         r    == stack_allocate(m0, b0, head, nodeOK, payOK)
     IN
     IF data = NULL
       THEN /\ last' = [call EXCEPT !.returned = TRUE, !.ok = FALSE]
            /\ UNCHANGED <<pc, stk, mem, brk, ghost>>
     ELSE IF ~r.ok
       THEN /\ last' = [call EXCEPT !.returned = TRUE, !.ok = FALSE,
                                    !.oom = "node"]
            /\ mem' = r.mem /\ brk' = r.brk /\ head' = r.head
            /\ UNCHANGED <<pc, stack, stackSt, size, data_size, ghost>>
     ELSE IF stack = NULL
       THEN /\ pc' = "crashed"
            /\ last' = call
            /\ mem' = [m0 EXCEPT ![b0 + 1] = Fresh("node")]
            /\ brk' = b0 + 1
            /\ UNCHANGED <<stk, ghost>>
     ELSE   /\ last' = [call EXCEPT !.returned = TRUE, !.ok = TRUE,
                                    !.bytes = SubSeq(obj, 1, data_size),
                                    !.oom = IF payOK THEN "none" ELSE "payload"]
            /\ mem' = [r.mem EXCEPT ![r.head].data = data]
            /\ brk' = r.brk /\ head' = r.head
            /\ size' = (size + 1)
            /\ GhostEmplace
            /\ UNCHANGED <<pc, stack, stackSt, data_size>>

\* ------------------------------------------------------------- stack_pop
\* stack_pop without the free(temp->data) of line 260
stack_pop_keeps_payload ==
  /\ pc = "idle"
  /\ IF stack_is_empty
       THEN /\ last' = [NoCall EXCEPT !.op = "pop", !.returned = TRUE,
                                      !.ok = FALSE]
            /\ UNCHANGED <<pc, stk, mem, brk, ghost>>
       ELSE LET temp == head IN
            /\ head' = mem[head].next
            /\ mem' = Free(mem, temp)
            /\ size' = size - 1
            /\ last' = [NoCall EXCEPT !.op = "pop", !.returned = TRUE,
                                      !.ok = TRUE]
            /\ GhostPop
            /\ UNCHANGED <<pc, stack, stackSt, data_size, brk>>

\* stack_pop reporting success on an empty stack
stack_pop_empty_ok ==
  /\ pc = "idle"
  /\ IF stack_is_empty
       THEN /\ last' = [NoCall EXCEPT !.op = "pop", !.returned = TRUE,
                                      !.ok = TRUE]
            /\ UNCHANGED <<pc, stk, mem, brk, ghost>>
       ELSE LET temp == head IN
            /\ head' = mem[head].next
            /\ mem' = Free(Free(mem, mem[temp].data), temp)
            /\ size' = size - 1
            /\ last' = [NoCall EXCEPT !.op = "pop", !.returned = TRUE,
                                      !.ok = TRUE]
            /\ GhostPop
            /\ UNCHANGED <<pc, stack, stackSt, data_size, brk>>

\* stack_pop without the size-- of line 262
stack_pop_keeps_size ==
  /\ pc = "idle"
  /\ IF stack_is_empty
       THEN /\ last' = [NoCall EXCEPT !.op = "pop", !.returned = TRUE,
                                      !.ok = FALSE]
            /\ UNCHANGED <<pc, stk, mem, brk, ghost>>
       ELSE LET temp == head IN
            /\ head' = mem[head].next
            /\ mem' = Free(Free(mem, mem[temp].data), temp)
            /\ size' = size
            /\ last' = [NoCall EXCEPT !.op = "pop", !.returned = TRUE,
                                      !.ok = TRUE]
            /\ GhostPop
            /\ UNCHANGED <<pc, stack, stackSt, data_size, brk>>

stack_pop ==
  /\ pc = "idle"
  /\ IF stack_is_empty
       THEN /\ last' = [NoCall EXCEPT !.op = "pop", !.returned = TRUE,
                                      !.ok = FALSE]
            /\ UNCHANGED <<pc, stk, mem, brk, ghost>>
       ELSE LET temp == head IN
            /\ head' = mem[head].next
            /\ mem' = Free(Free(mem, mem[temp].data), temp)
            /\ size' = (size - 1)
            /\ last' = [NoCall EXCEPT !.op = "pop", !.returned = TRUE,
                                      !.ok = TRUE]
            /\ GhostPop
            /\ UNCHANGED <<pc, stack, stackSt, data_size, brk>>

\* ---------------------------------------------------- the read-only calls
\* stack_is_empty without the !stack test: stack->head is read through the
\* null handle
is_empty_call_unguarded ==
  /\ pc = "idle"
  /\ IF stack = NULL
       THEN /\ pc' = "crashed"
            /\ last' = [NoCall EXCEPT !.op = "is_empty"]
       ELSE /\ pc' = pc
            /\ last' = [NoCall EXCEPT !.op = "is_empty", !.returned = TRUE,
                                      !.ok = (head = NULL)]
  /\ UNCHANGED <<stk, mem, brk, ghost>>

is_empty_call ==
  /\ pc = "idle"
  /\ last' = [NoCall EXCEPT !.op = "is_empty", !.returned = TRUE,
                            !.ok = stack_is_empty]
  /\ UNCHANGED <<pc, stk, mem, brk, ghost>>

size_call ==
  /\ pc = "idle"
  /\ last' = [NoCall EXCEPT !.op = "size", !.returned = TRUE,
                            !.num = stack_size]
  /\ UNCHANGED <<pc, stk, mem, brk, ghost>>

\* stack_peek releasing the payload it returns
peek_call_consuming ==
  /\ pc = "idle"
  /\ last' = [NoCall EXCEPT !.op = "peek", !.returned = TRUE,
                            !.ptr = stack_peek]
  /\ mem' = Free(mem, stack_peek)
  /\ UNCHANGED <<pc, stk, brk, ghost>>

peek_call ==
  /\ pc = "idle"
  /\ last' = [NoCall EXCEPT !.op = "peek", !.returned = TRUE,
                            !.ptr = stack_peek]
  /\ UNCHANGED <<pc, stk, mem, brk, ghost>>

\* --------------------------------------------------------- stack_destroy
\* entry: next = NULL, nothing else happens before the loop test
destroy_enter ==
  /\ pc = "idle"
  /\ pc' = "destroy"
  /\ last' = [NoCall EXCEPT !.op = "destroy"]
  /\ destroyed' = TRUE
  /\ phase' = "off"
  /\ pushed' = <<>>
  /\ npop' = 0
  /\ dsnap' = LET ns == Range(Chain(mem, IF stack = NULL THEN NULL ELSE head,
                                    MaxAddr))
              IN  [nodes |-> ns, bufs |-> {mem[n].data : n \in ns} \ {NULL}]
  /\ iters' = 0
  /\ UNCHANGED <<stk, mem, brk, nIns, nPop>>

\* one iteration of the loop that runs to its end: the payload of the head
\* is freed, then the node AFTER the head is freed and made the head
destroy_iterate ==
  /\ pc = "destroy"
  /\ ~stack_is_empty
  /\ \E d \in ReadField(mem, head, "data") :
       LET m1 == Free(mem, d) IN
       \E next \in ReadField(m1, head, "next") :
         /\ head' = next
         /\ mem' = Free(m1, next)
  /\ size' = (size - 1)
  /\ iters' = iters + 1
  /\ UNCHANGED <<pc, stack, stackSt, data_size, brk, last,
                 pushed, npop, phase, nIns, nPop, destroyed, dsnap>>

\* one iteration that stops the program: the head it reads is a freed node
destroy_crash ==
  /\ pc = "destroy"
  /\ ~stack_is_empty
  /\ ~LiveNode(mem, head)
  /\ pc' = "crashed"
  /\ UNCHANGED <<stk, mem, brk, last, ghost>>

\* the loop test fails: stack_destroy returns
destroy_return ==
  /\ pc = "destroy"
  /\ stack_is_empty
  /\ pc' = "idle"
  /\ last' = [last EXCEPT !.returned = TRUE]
  /\ UNCHANGED <<stk, mem, brk, ghost>>

Next ==
  \/ \E ds \in DataSizes, ok \in BOOLEAN : stack_initialise(ds, ok)
  \/ \E obj \in Objects \cup {NoObject}, nodeOK, payOK \in BOOLEAN :
       stack_push(obj, nodeOK, payOK)
  \/ \E obj \in Objects \cup {NoObject}, nodeOK, payOK \in BOOLEAN :
       stack_emplace(obj, nodeOK, payOK)
  \/ stack_pop
  \/ is_empty_call
  \/ size_call
  \/ peek_call
  \/ destroy_enter
  \/ destroy_iterate
  \/ destroy_crash
  \/ destroy_return

Spec == Init /\ [][Next]_vars

\* ==================================================================== C1
\* C1: LIFO order.  In a run of n successful pushes p1..pn on a freshly
\* created stack followed by successful pops, stack_peek before the i-th pop
\* returns a payload holding the data_size bytes of p_(n-i+1): after npop
\* pops the top is the bytes of pushed[n - npop].
C1_LifoOrder ==
  (pc = "idle" /\ phase \in {"push", "pop"} /\ npop < Len(pushed)) =>
    /\ stack_peek # NULL
    /\ mem[stack_peek].st = "live"
    /\ mem[stack_peek].bytes =
         SubSeq(pushed[Len(pushed) - npop], 1, data_size)

\* three pushes, the last two of different values, and two pops made
C1_Witness ==
  /\ pc = "idle" /\ phase = "pop"
  /\ Len(pushed) = 3 /\ npop = 2
  /\ pushed[1] # pushed[2]

\* ==================================================================== C2
\* C2: after k successful insertions (push or emplace) and j successful pops
\* on a freshly created stack, in any interleaving and with no stack_destroy,
\* stack_size returns k - j, and stack_is_empty is true exactly when
\* stack_size returns 0.
C2_SizeCounts ==
  (pc = "idle" /\ stack # NULL /\ ~destroyed) =>
    /\ stack_size = nIns - nPop
    /\ stack_is_empty <=> (stack_size = 0)

\* a push, a pop, then an emplace: k = 2, j = 1
C2_Witness ==
  /\ pc = "idle" /\ ~destroyed
  /\ last.op = "emplace" /\ last.ok
  /\ nIns = 2 /\ nPop = 1
  /\ stack_size = 1

\* what a caller can see of the stack: the head, the size, and node by node
\* the payload pointer and the payload bytes
StackView(m, h, n) ==
  [head |-> h, size |-> n,
   nodes |-> [i \in DOMAIN Chain(m, h, MaxAddr) |->
                LET a == Chain(m, h, MaxAddr)[i] IN
                [node |-> a, data |-> m[a].data,
                 bytes |-> IF m[a].data = NULL THEN <<>>
                           ELSE m[m[a].data].bytes]]]

\* ==================================================================== C3
\* C3: stack_push returns false and leaves the stack unchanged (same head,
\* same size, same chain of nodes and payloads) whenever the data reference
\* is null, the node allocation fails or the payload allocation fails.
\* Stated as written; the code breaks it when the payload allocation fails.
C3_PushFailsCleanly ==
  [][ (pc = "idle" /\ stack # NULL /\ last'.op = "push"
        /\ (last'.arg = NULL \/ last'.oom # "none"))
      => /\ pc' = "idle"
         /\ last'.returned /\ ~last'.ok
         /\ StackView(mem', head', size') = StackView(mem, head, size) ]_vars

\* ==================================================================== C4
\* C4: when stack_destroy has returned, each node and each payload the stack
\* held on entry has been freed exactly once, and the Stack record has not
\* been freed.  Stated as written; the code never frees the first node.
C4_DestroyFreesAll ==
  (last.op = "destroy" /\ last.returned /\ stack # NULL) =>
    /\ \A a \in dsnap.nodes \cup dsnap.bufs :
         mem[a].st = "freed" /\ mem[a].frees = 1
    /\ stackSt = "live"

\* ==================================================================== C5
\* C5: stack_destroy on a stack of any number of elements returns and leaves
\* size 0 and head none, so that stack_size is 0 and stack_peek is null as on
\* a freshly created stack.  Stated as written; the code reads a freed node
\* from the second iteration on.
C5_DestroyLeavesFresh ==
  (last.op = "destroy" /\ stack # NULL) =>
    /\ pc # "crashed"
    /\ last.returned =>
         size = 0 /\ head = NULL /\ stack_size = 0 /\ stack_peek = NULL

\* ==================================================================== C6
\* C6: whenever the stack is empty (freshly created, or drained by pops), a
\* stack_pop returns false and changes nothing and a stack_peek returns
\* null; neither stops the program on the missing head.
C6_EmptyPopPeek ==
  [][ (pc = "idle" /\ stack # NULL /\ stack_is_empty) =>
        /\ last'.op = "pop" =>
             /\ pc' = "idle"
             /\ last'.returned /\ ~last'.ok
             /\ UNCHANGED <<stk, mem, brk>>
        /\ last'.op = "peek" =>
             /\ pc' = "idle"
             /\ last'.returned /\ last'.ptr = NULL
             /\ UNCHANGED <<stk, mem, brk>> ]_vars

\* a failed pop on a stack that two pops have drained
C6_Witness ==
  /\ pc = "idle" /\ ~destroyed
  /\ last.op = "pop" /\ last.returned /\ ~last.ok
  /\ nIns = 2 /\ nPop = 2
  /\ head = NULL

\* ==================================================================== C7
\* C7: round trip.  Right after a successful stack_push(v), stack_peek
\* returns a live payload that is not the caller's object and whose
\* data_size bytes are those of v; right after a successful
\* stack_emplace(buf), stack_peek returns buf itself, live, with the bytes
\* the caller wrote.
C7_RoundTrip ==
  (pc = "idle" /\ last.returned /\ last.ok) =>
    /\ last.op = "push" =>
         /\ stack_peek \notin {NULL, last.arg}
         /\ mem[stack_peek].st = "live"
         /\ mem[stack_peek].bytes = SubSeq(last.bytes, 1, data_size)
    /\ last.op = "emplace" =>
         /\ stack_peek = last.arg
         /\ mem[stack_peek].st = "live"
         /\ mem[stack_peek].bytes = last.bytes

\* a push of a 4-byte object onto a non-empty stack of 4-byte elements
C7_Witness ==
  /\ pc = "idle"
  /\ last.op = "push" /\ last.returned /\ last.ok
  /\ data_size = ITEM_SIZE
  /\ last.bytes = ItemBytes(500)
  /\ size = 2

\* ==================================================================== C8
\* C8: stack_emplace returns false when the buffer reference is null or the
\* node allocation fails; size and head are then unchanged, no node of the
\* stack refers to the caller's buffer, and the buffer has not been freed.
C8_EmplaceFailsCleanly ==
  [][ (pc = "idle" /\ stack # NULL /\ last'.op = "emplace"
        /\ (last'.arg = NULL \/ last'.oom = "node"))
      => /\ pc' = "idle"
         /\ last'.returned /\ ~last'.ok
         /\ size' = size /\ head' = head
         /\ StackView(mem', head', size') = StackView(mem, head, size)
         /\ last'.arg # NULL =>
              /\ mem'[last'.arg].st = "live"
              /\ mem'[last'.arg].frees = 0
              /\ \A n \in Range(Chain(mem', head', MaxAddr)) :
                   mem'[n].data # last'.arg ]_vars

\* an emplace of a buffer that failed for want of a node, on a non-empty stack
C8_Witness ==
  /\ pc = "idle"
  /\ last.op = "emplace" /\ last.returned /\ ~last.ok
  /\ last.arg # NULL /\ last.oom = "node"
  /\ size = 1 /\ head # NULL

\* ==================================================================== C9
\* C9: in every state between operations, size is 0 exactly when head is
\* none, following next from head exactly size times reaches none, and the
\* chain has no cycle.  Stated as written; a stack_destroy of three elements
\* that survives its reads of freed nodes can return with size 1, head none.
C9_SizeMatchesChain ==
  (pc = "idle" /\ stack # NULL) =>
    /\ (size = 0) <=> (head = NULL)
    /\ Walk(mem, head, size) = NULL
    /\ Cardinality(Range(Chain(mem, head, MaxAddr))) =
         Len(Chain(mem, head, MaxAddr))

\* =================================================================== C10
\* C10: stack_initialise(data_size) returns null, and then only because the
\* allocation of the record failed, or a stack with size 0, head none and
\* data_size equal to the argument, for which stack_is_empty is true and
\* stack_size is 0.
C10_Initialise ==
  (last.op = "initialise") =>
    /\ last.returned
    /\ stack = last.ptr
    /\ \/ last.ptr = NULL /\ last.oom = "stack"
       \/ /\ last.ptr # NULL /\ last.oom = "none"
          /\ stackSt = "live"
          /\ size = 0 /\ head = NULL /\ data_size = last.num
          /\ stack_is_empty /\ stack_size = 0

\* a stack created for one-byte elements
C10_Witness ==
  /\ pc = "idle"
  /\ last.op = "initialise" /\ last.ptr # NULL
  /\ last.num = 1 /\ data_size = 1

\* =================================================================== C11
\* C11: stack_pop on a non-empty stack returns true, frees exactly the top
\* node and that node's payload, makes the former second node (or none) the
\* head and decrements size by one; every other block, the order of the
\* remaining nodes and data_size are unchanged.
C11_PopFrame ==
  [][ (pc = "idle" /\ ~stack_is_empty /\ last'.op = "pop") =>
        LET top == head
            pay == mem[head].data
        IN
        /\ pc' = "idle"
        /\ last'.returned /\ last'.ok
        /\ head' = mem[top].next
        /\ size' = size - 1
        /\ data_size' = data_size /\ stack' = stack /\ stackSt' = stackSt
        /\ mem[top].st = "live" /\ mem'[top].st = "freed"
        /\ mem'[top].frees = 1
        /\ pay # NULL
        /\ mem[pay].st = "live" /\ mem'[pay].st = "freed"
        /\ mem'[pay].frees = 1
        /\ \A a \in Addr \ {top, pay} : mem'[a] = mem[a]
        /\ Chain(mem', head', MaxAddr) = Tail(Chain(mem, head, MaxAddr)) ]_vars

\* a pop of the top of two elements, the one left being the first pushed
C11_Witness ==
  /\ pc = "idle" /\ ~destroyed
  /\ last.op = "pop" /\ last.returned /\ last.ok
  /\ nIns = 2 /\ nPop = 1
  /\ size = 1 /\ head = 1
  /\ mem[3].st = "freed" /\ mem[4].st = "freed"

\* =================================================================== C12
\* C12: given a null stack handle, stack_is_empty returns true and
\* stack_size returns 0, and neither stops the program on the handle.
C12_NullHandle ==
  [][ (pc = "idle" /\ stack = NULL) =>
        /\ last'.op = "is_empty" =>
             pc' = "idle" /\ last'.returned /\ last'.ok
        /\ last'.op = "size" =>
             pc' = "idle" /\ last'.returned /\ last'.num = 0 ]_vars

\* stack_size has answered 0 for the handle a failed stack_initialise gave
C12_Witness ==
  /\ pc = "idle" /\ stack = NULL
  /\ last.op = "size" /\ last.returned /\ last.num = 0

\* =================================================================== C13
\* C13: no leak.  In every state between operations the live blocks the
\* stack has allocated or adopted are exactly the nodes reachable from head
\* and one payload for each of them; a drained stack holds no live block.
\* Stated as written; stack_emplace leaves the payload stack_allocate got
\* from malloc live and unreferenced.
C13_NoLeak ==
  (pc = "idle" /\ stack # NULL) =>
    LET ns == Range(Chain(mem, head, MaxAddr))
        ps == {mem[n].data : n \in ns}
    IN
    /\ \A a \in ns \cup ps : a # NULL /\ mem[a].st = "live"
    /\ Cardinality(ps) = Cardinality(ns)
    /\ {a \in Addr : mem[a].st = "live" /\ mem[a].kind \in {"node", "buf"}}
         \subseteq ns \cup ps

\* =================================================================== C14
\* C14 as written: a successful push or emplace is the only step from Empty
\* (size = 0) to NonEmpty (size > 0), and a pop is the only step from
\* NonEmpty to Empty.
C14_OnlyPopEmpties ==
  [][ /\ (size = 0 /\ size' > 0) =>
           last'.op \in {"push", "emplace"} /\ last'.returned /\ last'.ok
      /\ (size > 0 /\ size' = 0) =>
           last'.op = "pop" /\ last'.returned /\ last'.ok ]_vars

\* C14, amended: a successful push or emplace is the only step from Empty to
\* NonEmpty; the steps from NonEmpty to Empty are a successful pop and an
\* iteration of stack_destroy; every other step keeps the stack Empty or
\* keeps it NonEmpty.
C14_PopOrDestroyEmpties ==
  [][ /\ (size = 0 /\ size' > 0) =>
           last'.op \in {"push", "emplace"} /\ last'.returned /\ last'.ok
      /\ (size > 0 /\ size' = 0) =>
           \/ last'.op = "pop" /\ last'.returned /\ last'.ok
           \/ pc = "destroy" /\ pc' = "destroy" /\ last'.op = "destroy" ]_vars

\* stack_destroy has emptied a stack of one element and returned
C14_Witness ==
  /\ pc = "idle"
  /\ last.op = "destroy" /\ last.returned
  /\ Cardinality(dsnap.nodes) = 1 /\ iters = 1
  /\ size = 0 /\ head = NULL

\* =================================================================== C15
\* C15: memory safety.  With a non-null handle no step of push, emplace,
\* pop, peek or destroy reads, writes or frees through a null pointer or a
\* pointer to a freed block: the program never stops on such an access, the
\* head that an iteration of stack_destroy is about to use is a live node,
\* and no block is freed twice.  Stated as written; stack_push writes
\* through a null payload pointer and stack_destroy reads a freed node.
C15_MemorySafe ==
  (stack # NULL) =>
    /\ pc # "crashed"
    /\ (pc = "destroy" /\ head # NULL) => LiveNode(mem, head)
    /\ \A a \in Addr : mem[a].frees <= 1

\* =================================================================== C16
\* what the observers show of a stack now and after any further calls: the
\* bytes stack_peek leads to, node by node from the top
Contents(m, h) ==
  [i \in DOMAIN Chain(m, h, MaxAddr) |->
     LET d == m[Chain(m, h, MaxAddr)[i]].data IN
     IF d = NULL THEN <<>> ELSE m[d].bytes]

\* C16: a successful stack_emplace of a heap buffer holding v and a
\* successful stack_push of v cannot be told apart.  From any state both
\* raise size by one and put the data_size bytes of v on top of the
\* contents; a successful pop removes the top; a failed call changes
\* neither; and what stack_size, stack_is_empty and stack_peek answer
\* afterwards is a function of size and contents alone, so the two stacks
\* agree after every further sequence of push, emplace and pop.
C16_EmplaceAsPush ==
  [][ (pc = "idle" /\ pc' = "idle" /\ stack # NULL
        /\ last'.op \in {"push", "emplace", "pop"}) =>
      LET c  == Contents(mem, head)
          c2 == Contents(mem', head')
      IN
      /\ IF last'.ok /\ last'.op \in {"push", "emplace"}
           THEN /\ c2 = <<SubSeq(last'.bytes, 1, data_size)>> \o c
                /\ size' = size + 1
         ELSE IF last'.ok
           THEN c2 = Tail(c) /\ size' = size - 1
           ELSE c2 = c /\ size' = size
      /\ stack_is_empty' <=> (c2 = <<>>)
      /\ stack_size' = IF c2 = <<>> THEN 0 ELSE size'
      /\ c2 # <<>> =>
           /\ stack_peek' # NULL
           /\ mem'[stack_peek'].st = "live"
           /\ mem'[stack_peek'].bytes = Head(c2) ]_vars

\* the scenario of main up to its emplace: push 500, push 1000, pop, pop
\* (blocks 1 to 4 are released), then emplace of a heap buffer holding 500
\* gives size 1 and a peek at that buffer holding 500
C16_Witness ==
  /\ pc = "idle" /\ ~destroyed
  /\ data_size = ITEM_SIZE
  /\ last.op = "emplace" /\ last.returned /\ last.ok
  /\ nIns = 3 /\ nPop = 2
  /\ \A a \in 1..4 : mem[a].st = "freed"
  /\ stack_size = 1
  /\ stack_peek = last.arg
  /\ mem[stack_peek].kind = "cbuf"
  /\ mem[stack_peek].bytes = ItemBytes(500)

\* =================================================================== C17
\* C17: stack_is_empty, stack_size and stack_peek return and leave the
\* stack record and the heap unchanged; stack_peek returns the top payload,
\* which is a live block; and when the call before was a stack_peek that
\* returned a reference, that reference still leads to the same live,
\* unmodified block and is still what stack_peek returns.
C17_ReadOnly ==
  [][ (pc = "idle" /\ last'.op \in {"is_empty", "size", "peek"}) =>
        /\ pc' = "idle" /\ last'.returned
        /\ UNCHANGED <<stk, mem, brk>>
        /\ last'.op = "peek" =>
             /\ last'.ptr = stack_peek'
             /\ last'.ptr # NULL => mem'[last'.ptr].st = "live"
        /\ (last.op = "peek" /\ last.returned /\ last.ptr # NULL) =>
             /\ mem[last.ptr].st = "live"
             /\ mem'[last.ptr] = mem[last.ptr]
             /\ stack_peek' = last.ptr ]_vars

\* a stack_peek on a stack of two elements has returned the payload of the
\* top, which holds 1000
C17_Witness ==
  /\ pc = "idle" /\ ~destroyed
  /\ last.op = "peek" /\ last.returned /\ last.ptr # NULL
  /\ size = 2
  /\ last.ptr = mem[head].data
  /\ mem[last.ptr].st = "live"
  /\ mem[last.ptr].bytes = ItemBytes(1000)

\* =================================================================== C18
\* C18: stack_destroy on a stack of n elements never stops the program, never
\* runs more than n iterations, and when it has returned it has run exactly
\* n iterations and the stack is empty.  Stated as written; the code reads a
\* freed node in its second iteration.
C18_DestroyIterations ==
  (last.op = "destroy") =>
    LET n == Cardinality(dsnap.nodes) IN
    /\ pc # "crashed"
    /\ iters <= n
    /\ last.returned => iters = n /\ stack_is_empty
====
